---- MODULE Spec2Model ----
(***************************************************************************)
(* Model of charlievieth/healthcheck: the address formatter (IPString),    *)
(* the interface scan and the two probes (healthcheck.go), and the poll    *)
(* loop and CLI adapter of cmd/healthcheck (realMain, main).               *)
(*                                                                         *)
(* Text the code builds character by character (IPString, the dial target, *)
(* the URL host) is a sequence of one-character strings; messages the code *)
(* builds by concatenating whole strings are TLA+ strings.                 *)
(***************************************************************************)
EXTENDS Integers, Sequences, FiniteSets, TLC

VARIABLES
    hostAddrs,          \* the host: per interface, whether it exists, whether Addrs() works, its addresses
    network, uri, port, timeout, readinessInterval, livenessInterval,  \* the flag variables
    pc,                 \* where realMain / main stands
    interfaces,         \* realMain's local: what net.Interfaces() returned
    h,                  \* realMain's local: the HealthCheck value
    err,                \* what realMain returned
    enumCalls,          \* history: number of net.Interfaces() calls
    enumerated,         \* history: the list each successful net.Interfaces() call returned
    outcomes,           \* history: per CheckInterfaces call of the run, whether it returned nil
    slept,              \* history: the durations passed to time.Sleep, in order
    lastCheck,          \* history: the trace of the most recent CheckInterfaces call
    stdout, stderr, exitCode,   \* what main wrote and the argument of os.Exit
    legacy,             \* the trace of a run of the earlier, single-shot main
    ip, str, formatted  \* the formatter harness: input, output, whether IPString ran

vars == <<hostAddrs, network, uri, port, timeout, readinessInterval, livenessInterval,
          pc, interfaces, h, err, enumCalls, enumerated, outcomes, slept, lastCheck,
          stdout, stderr, exitCode, legacy, ip, str, formatted>>

hostVars == <<hostAddrs>>
flagVars == <<network, uri, port, timeout, readinessInterval, livenessInterval>>
runVars  == <<pc, interfaces, h, err, enumCalls, enumerated, outcomes, slept>>
outVars  == <<stdout, stderr, exitCode>>
oldVars  == <<legacy>>
fmtVars  == <<ip, str, formatted>>

(***************************************************************************)
(* Bounds.                                                                 *)
(***************************************************************************)
MaxIfs == 2
MaxAddrs == 2
MaxAttempts == 3

(***************************************************************************)
(* net.IP helpers used by the code (standard library, modelled by what     *)
(* they compute on the byte slice).                                        *)
(***************************************************************************)
IPv4len == 4
IPv6len == 16

\* net.IP.To4: the 4-byte form, or the empty slice (nil) when there is none.
To4(p) ==
    IF Len(p) = IPv4len THEN p
    ELSE IF Len(p) = IPv6len
            /\ \A i \in 1..10 : p[i] = 0
            /\ p[11] = 255 /\ p[12] = 255
         THEN SubSeq(p, 13, 16)
         ELSE <<>>

IPv6loopback == <<0,0,0,0,0,0,0,0,0,0,0,0,0,0,0,1>>

\* net.IP.IsLoopback.
IsLoopback(p) ==
    IF To4(p) # <<>> THEN To4(p)[1] = 127 ELSE p = IPv6loopback

(***************************************************************************)
(* The address formatter.                                                  *)
(***************************************************************************)
hexDigit == <<"0","1","2","3","4","5","6","7","8","9","a","b","c","d","e","f">>

\* The digits appendInt writes into buf, right to left, for val > 0.
RECURSIVE appendIntDigits(_)
appendIntDigits(val) ==
    IF val >= 10
    THEN LET q == val \div 10
         IN appendIntDigits(q) \o <<hexDigit[(val - q * 10) + 1]>>
    ELSE <<hexDigit[val + 1]>>

appendInt(a, val) ==
    IF val = 0 THEN Append(a, "0") ELSE a \o appendIntDigits(val)

convertIPv4(p) ==
    LET b1 == appendInt(<<>>, p[1])
        b2 == appendInt(Append(b1, "."), p[2])
        b3 == appendInt(Append(b2, "."), p[3])
    IN appendInt(Append(b3, "."), p[4])

\* i >> uint(j*4) is i \div Pow16(j).
Pow16(j) == 2 ^ (4 * j)

\* appendHex's loop runs j from 7 down to 0 and appends the digit at j whenever
\* i >> uint(j*4) is positive: those j are n-1 down to 0, n the count of them.
appendHex(dst, i) ==
    IF i = 0 THEN Append(dst, "0")
    ELSE LET n == Cardinality({ j \in 0..7 : i \div Pow16(j) > 0 })
         IN dst \o [k \in 1..n |-> hexDigit[((i \div Pow16(n - k)) % 16) + 1]]

\* s[i*2], s[i*2+1] = hexDigit[tn>>4], hexDigit[tn&0xf] for every byte tn of b.
hexString(b) ==
    [k \in 1..(2 * Len(b)) |->
        IF k % 2 = 1 THEN hexDigit[(b[(k + 1) \div 2] \div 16) + 1]
        ELSE hexDigit[(b[k \div 2] % 16) + 1]]

\* convertIPv6's inner loop: the end j of the zero run starting at byte offset i.
RECURSIVE zeroRunEnd(_, _)
zeroRunEnd(p, j) ==
    IF j < IPv6len /\ p[j + 1] = 0 /\ p[j + 2] = 0 THEN zeroRunEnd(p, j + 2) ELSE j

\* Mutant: a run as long as the best one replaces it (the latest wins a tie).
RECURSIVE longestRunFromLatest(_, _, _, _)
longestRunFromLatest(p, i, e0, e1) ==
    IF i >= IPv6len THEN <<e0, e1>>
    ELSE LET j == zeroRunEnd(p, i)
         IN IF j > i /\ j - i >= e1 - e0
            THEN longestRunFromLatest(p, j + 2, i, j)
            ELSE longestRunFromLatest(p, i + 2, e0, e1)

\* convertIPv6's first loop, at byte offset i with the best run <<e0, e1>> so far.
RECURSIVE longestRunFrom(_, _, _, _)
longestRunFrom(p, i, e0, e1) ==
    IF i >= IPv6len THEN <<e0, e1>>
    ELSE LET j == zeroRunEnd(p, i)
         IN IF j > i /\ j - i > e1 - e0
            THEN longestRunFrom(p, j + 2, i, j)
            ELSE longestRunFrom(p, i + 2, e0, e1)

\* The run convertIPv6 compresses: <<-1, -1>> when the longest is one group.
longestRun(p) ==
    LET e == longestRunFrom(p, 0, -1, -1)
    IN IF e[2] - e[1] <= 2 THEN <<-1, -1>> ELSE e

group(p, i) == p[i + 1] * 256 + p[i + 2]

\* convertIPv6's second loop, at byte offset i with output b so far.
RECURSIVE emitFrom(_, _, _, _, _)
emitFrom(p, i, e0, e1, b) ==
    IF i >= IPv6len THEN b
    ELSE IF i = e0
         THEN LET b2 == b \o <<":", ":">>
              IN IF e1 >= IPv6len THEN b2
                 ELSE emitFrom(p, e1 + 2, e0, e1, appendHex(b2, group(p, e1)))
         ELSE emitFrom(p, i + 2, e0, e1,
                       appendHex(IF i > 0 THEN Append(b, ":") ELSE b, group(p, i)))

convertIPv6(p) ==
    LET e == longestRun(p) IN emitFrom(p, 0, e[1], e[2], <<>>)

IPString(p) ==
    IF Len(p) = 0 THEN <<"<", "n", "i", "l", ">">>
    ELSE IF Len(To4(p)) = IPv4len THEN convertIPv4(To4(p))
    ELSE IF Len(p) # IPv6len THEN <<"?">> \o hexString(p)
    ELSE convertIPv6(p)

(***************************************************************************)
(* Errors.  A Go error value is nil, a *HealthCheckError or a plain error. *)
(***************************************************************************)
Nil == [kind |-> "nil", Code |-> 0, Message |-> ""]

HealthCheckError(code, message) ==
    [kind |-> "HealthCheckError", Code |-> code, Message |-> message]

errorsNew(message) == [kind |-> "error", Code |-> 0, Message |-> message]

NewHealthCheck(n, u, p, t) == [network |-> n, uri |-> u, port |-> p, timeout |-> t]

(***************************************************************************)
(* The environment of one probe: the state of the probed service.          *)
(***************************************************************************)
Services == {"ok200", "ok204", "ok500", "refused", "slow"}

\* net.DialTimeout against a service in state svc.
DialTimeout(n, addr, t, svc) ==
    CASE svc = "refused" -> [ok |-> FALSE, Timeout |-> FALSE, Error |-> "connection refused"]
      [] svc = "slow"    -> [ok |-> FALSE, Timeout |-> TRUE,  Error |-> "i/o timeout"]
      [] OTHER           -> [ok |-> TRUE,  Timeout |-> FALSE, Error |-> ""]

StatusOK == 200

\* http.Client.Do against a service in state svc.
clientDo(req, t, svc) ==
    CASE svc = "refused" -> [ok |-> FALSE, Timeout |-> FALSE, StatusCode |-> 0, Error |-> "connection refused"]
      [] svc = "slow"    -> [ok |-> FALSE, Timeout |-> TRUE,  StatusCode |-> 0, Error |-> "Client.Timeout exceeded"]
      [] svc = "ok200"   -> [ok |-> TRUE,  Timeout |-> FALSE, StatusCode |-> StatusOK, Error |-> ""]
      [] svc = "ok204"   -> [ok |-> TRUE,  Timeout |-> FALSE, StatusCode |-> 204, Error |-> ""]
      [] OTHER           -> [ok |-> TRUE,  Timeout |-> FALSE, StatusCode |-> 500, Error |-> ""]

(***************************************************************************)
(* The connection probe.  ops is the trace of what the probe did.  Each    *)
(* value the code keeps in a local (addr, conn/err) is an operator         *)
(* parameter here.                                                         *)
(***************************************************************************)
\* Mutant: a timed-out dial is reported like any other failed dial.
portResultNoTimeout(addr, d) ==
    IF d.ok
    THEN [err |-> Nil, ops |-> <<"dial", "close">>, target |-> addr]
    ELSE [err |-> HealthCheckError(4, "failure to make TCP connection: " \o d.Error),
          ops |-> <<"dial">>, target |-> addr]

\* PortHealthCheck after the dial to addr returned d.
portResult(addr, d) ==
    IF d.ok
    THEN [err |-> Nil, ops |-> <<"dial", "close">>, target |-> addr]
    ELSE IF d.Timeout
         THEN [err |-> HealthCheckError(64, "timeout when making TCP connection: " \o d.Error),
               ops |-> <<"dial">>, target |-> addr]
         ELSE [err |-> HealthCheckError(4, "failure to make TCP connection: " \o d.Error),
               ops |-> <<"dial">>, target |-> addr]

\* PortHealthCheck from the dial on.
portDial(hc, addr, svc) == portResult(addr, DialTimeout(hc.network, addr, hc.timeout, svc))

PortHealthCheck(hc, p, svc) == portDial(hc, IPString(p) \o <<":">> \o hc.port, svc)

(***************************************************************************)
(* The HTTP probe.                                                         *)
(***************************************************************************)
\* strings.LastIndex for a one-character needle: 0-based, -1 when absent.
LastIndex(s, c) ==
    IF \A i \in 1..Len(s) : s[i] # c THEN -1
    ELSE (CHOOSE i \in 1..Len(s) : s[i] = c /\ \A k \in (i + 1)..Len(s) : s[k] # c) - 1

\* strings.TrimSuffix for a one-character suffix.
TrimSuffix(s, c) ==
    IF Len(s) > 0 /\ s[Len(s)] = c THEN SubSeq(s, 1, Len(s) - 1) ELSE s

Digits == {"0", "1", "2", "3", "4", "5", "6", "7", "8", "9"}

\* url.Parse: the authority auth must end in digits after its last ':'.
urlAuthority(auth, path) ==
    IF LastIndex(auth, ":") # -1
       /\ \E i \in (LastIndex(auth, ":") + 2)..Len(auth) : auth[i] \notin Digits
    THEN [ok |-> FALSE, Host |-> <<>>, Path |-> <<>>, Error |-> "invalid port"]
    ELSE [ok |-> TRUE, Host |-> auth, Path |-> path, Error |-> ""]

\* url.Parse: where the authority ends in rest, at the first '/', '?' or '#'.
urlCut(rest) ==
    IF \A i \in 1..Len(rest) : rest[i] \notin {"/", "?", "#"} THEN Len(rest) + 1
    ELSE CHOOSE i \in 1..Len(rest) :
            rest[i] \in {"/", "?", "#"} /\ \A k \in 1..(i - 1) : rest[k] \notin {"/", "?", "#"}

urlSplit(rest, cut) == urlAuthority(SubSeq(rest, 1, cut - 1), SubSeq(rest, cut, Len(rest)))

urlRest(rest) == urlSplit(rest, urlCut(rest))

\* url.Parse of "http://" + host + ":" + port + uri.
urlParse(s) == urlRest(SubSeq(s, 8, Len(s)))

\* strconv.Itoa for n >= 0.
RECURSIVE Itoa(_)
Itoa(n) ==
    IF n < 10 THEN hexDigit[n + 1] ELSE Itoa(n \div 10) \o hexDigit[(n % 10) + 1]

\* Mutant: every 2xx status counts as healthy.
httpResultAny2xx(target, resp) ==
    IF resp.ok
    THEN [err |-> IF resp.StatusCode >= StatusOK /\ resp.StatusCode < 300 THEN Nil
                  ELSE HealthCheckError(6, "failure to get valid HTTP status code: "
                                           \o Itoa(resp.StatusCode)),
          ops |-> <<"parse", "GET", "drain", "closeBody", "status">>,
          target |-> target]
    ELSE IF resp.Timeout
         THEN [err |-> HealthCheckError(65, "timeout when making HTTP request: " \o resp.Error),
               ops |-> <<"parse", "GET">>, target |-> target]
         ELSE [err |-> HealthCheckError(5, "failure to make HTTP request: " \o resp.Error),
               ops |-> <<"parse", "GET">>, target |-> target]

\* HTTPHealthCheck after client.Do returned resp.
httpResult(target, resp) ==
    IF resp.ok
    THEN [err |-> IF resp.StatusCode = StatusOK THEN Nil
                  ELSE HealthCheckError(6, "failure to get valid HTTP status code: "
                                           \o Itoa(resp.StatusCode)),
          ops |-> <<"parse", "GET", "drain", "closeBody", "status">>,
          target |-> target]
    ELSE IF resp.Timeout
         THEN [err |-> HealthCheckError(65, "timeout when making HTTP request: " \o resp.Error),
               ops |-> <<"parse", "GET">>, target |-> target]
         ELSE [err |-> HealthCheckError(5, "failure to make HTTP request: " \o resp.Error),
               ops |-> <<"parse", "GET">>, target |-> target]

\* HTTPHealthCheck: the request to host and path, and client.Do.
httpDo(hc, svc, host, path) ==
    httpResult(host \o path,
               clientDo([Method |-> "GET", Host |-> host, Path |-> path, Body |-> "nil"],
                        hc.timeout, svc))

\* HTTPHealthCheck: a trailing ':' of the host that is not inside brackets is dropped.
httpHost(host) ==
    IF LastIndex(host, ":") > LastIndex(host, "]") THEN TrimSuffix(host, ":") ELSE host

\* HTTPHealthCheck after url.Parse of raw returned u.
httpParsed(hc, svc, raw, u) ==
    IF ~u.ok
    THEN [err |-> HealthCheckError(-1, "failed to parse URL: " \o u.Error),
          ops |-> <<"parse">>, target |-> raw]
    ELSE httpDo(hc, svc, httpHost(u.Host), u.Path)

httpURL(hc, raw, svc) == httpParsed(hc, svc, raw, urlParse(raw))

HTTPHealthCheck(hc, p, svc) ==
    httpURL(hc, <<"h","t","t","p",":","/","/">> \o IPString(p) \o <<":">> \o hc.port \o hc.uri, svc)

(***************************************************************************)
(* The interface scan.  An address is [net, ip]: net says it is a          *)
(* *net.IPNet (the type assertion of the scan), ip are its bytes.  The     *)
(* trace records, in order, the interfaces whose Addrs() was called, the   *)
(* addresses examined and the addresses probed.                            *)
(***************************************************************************)
healthcheck(hc, p, svc) ==
    IF Len(hc.uri) = 0 THEN PortHealthCheck(hc, p, svc) ELSE HTTPHealthCheck(hc, p, svc)

NoTrace == [called |-> FALSE, looked |-> <<>>, inspected |-> <<>>, probed |-> <<>>,
            ops |-> <<>>, target |-> <<>>, err |-> Nil, returned |-> FALSE,
            interfaces |-> <<>>, h |-> NewHealthCheck("", <<>>, <<>>, 0), svc |-> ""]

\* The trace after address k of interface position i was examined.
examined(t, i, k) == [t EXCEPT !.inspected = Append(@, <<i, k>>)]

\* The trace after the probe of address k of interface position i returned r.
probedAt(t, i, k, p, r) ==
    [t EXCEPT !.inspected = Append(@, <<i, k>>),
              !.probed = Append(@, [at |-> <<i, k>>, ip |-> p]),
              !.ops = @ \o r.ops, !.target = r.target, !.err = r.err]

\* Mutant: after a failed probe the scan goes on to the next address.
RECURSIVE scanAddrsUntilHealthy(_, _, _, _, _, _)
scanAddrsUntilHealthy(hc, svc, addrs, i, k, t) ==
    IF k > Len(addrs) THEN t
    ELSE IF addrs[k].net /\ ~IsLoopback(addrs[k].ip) /\ To4(addrs[k].ip) # <<>>
         THEN IF healthcheck(hc, addrs[k].ip, svc).err = Nil
              THEN [probedAt(t, i, k, addrs[k].ip, healthcheck(hc, addrs[k].ip, svc))
                       EXCEPT !.returned = TRUE]
              ELSE scanAddrsUntilHealthy(hc, svc, addrs, i, k + 1,
                       probedAt(t, i, k, addrs[k].ip, healthcheck(hc, addrs[k].ip, svc)))
         ELSE scanAddrsUntilHealthy(hc, svc, addrs, i, k + 1, examined(t, i, k))

\* The inner loop over one interface's addresses, at address k of interface position i.
RECURSIVE scanAddrs(_, _, _, _, _, _)
scanAddrs(hc, svc, addrs, i, k, t) ==
    IF k > Len(addrs) THEN t
    ELSE IF addrs[k].net /\ ~IsLoopback(addrs[k].ip) /\ To4(addrs[k].ip) # <<>>
         THEN [probedAt(t, i, k, addrs[k].ip, healthcheck(hc, addrs[k].ip, svc))
                  EXCEPT !.returned = TRUE]
         ELSE scanAddrs(hc, svc, addrs, i, k + 1, examined(t, i, k))

\* intf.Addrs() on the host: fails for an interface that is gone or whose lookup fails.
Addrs(host, intf) ==
    IF intf \in DOMAIN host /\ host[intf].present /\ host[intf].ok
    THEN [ok |-> TRUE, addrs |-> host[intf].addrs]
    ELSE [ok |-> FALSE, addrs |-> <<>>]

\* The trace after Addrs() was called on interface position i.
looked(t, i) == [t EXCEPT !.looked = Append(@, i)]

NoInterface(t) ==
    [t EXCEPT !.err = HealthCheckError(3, "failure to find suitable interface"),
              !.returned = TRUE]

RECURSIVE scanInterfaces(_, _, _, _, _, _)

\* Mutant: a failed address lookup ends the scan.
scanNextAbort(hc, svc, host, intfs, i, l, t) ==
    IF ~l.ok THEN NoInterface(looked(t, i))
    ELSE scanInterfaces(hc, svc, host, intfs, i + 1,
                        scanAddrs(hc, svc, l.addrs, i, 1, looked(t, i)))

\* The outer loop's body at position i, after Addrs() returned l: the scan goes
\* on from position i + 1 with the trace of the inner loop.
scanNext(hc, svc, host, intfs, i, l, t) ==
    IF ~l.ok THEN scanInterfaces(hc, svc, host, intfs, i + 1, looked(t, i))
    ELSE scanInterfaces(hc, svc, host, intfs, i + 1,
                        scanAddrs(hc, svc, l.addrs, i, 1, looked(t, i)))

\* The outer loop, at position i of the interface list; a trace that has
\* returned is the result.
scanInterfaces(hc, svc, host, intfs, i, t) ==
    IF t.returned THEN t
    ELSE IF i > Len(intfs) THEN NoInterface(t)
    ELSE scanNext(hc, svc, host, intfs, i, Addrs(host, intfs[i]), t)

\* h.CheckInterfaces(interfaces) on the host, with the probed service in state svc.
CheckInterfaces(hc, intfs, host, svc) ==
    scanInterfaces(hc, svc, host, intfs, 1,
                   [NoTrace EXCEPT !.called = TRUE, !.interfaces = intfs, !.h = hc, !.svc = svc])

\* net.Interfaces() on the host: the interfaces that exist, in host order.
RECURSIVE InterfacesFrom(_, _)
InterfacesFrom(host, i) ==
    IF i > Len(host) THEN <<>>
    ELSE (IF host[i].present THEN <<i>> ELSE <<>>) \o InterfacesFrom(host, i + 1)

Interfaces(host) == InterfacesFrom(host, 1)

(***************************************************************************)
(* The earlier main: one scan, each probe ends the process (os.Exit).      *)
(***************************************************************************)
NoLegacy == [called |-> FALSE, looked |-> <<>>, inspected |-> <<>>, probed |-> <<>>,
             ops |-> <<>>, out |-> <<>>, exit |-> 0, exited |-> FALSE,
             interfaces |-> <<>>, uri |-> <<>>, port |-> <<>>, svc |-> ""]

\* failHealthCheck: print the reason and exit with the code.
failHealthCheck(t, code, reason) ==
    [t EXCEPT !.out = Append(@, "healthcheck failed: " \o reason), !.exit = code, !.exited = TRUE]

\* The success branch of both probes: print and exit 0.
passHealthCheck(t) ==
    [t EXCEPT !.out = Append(@, "healthcheck passed"), !.exit = 0, !.exited = TRUE]

did(t, op) == [t EXCEPT !.ops = Append(@, op)]

\* portHealthCheck of the earlier main after the dial returned d.
portExit(t, d) ==
    IF d.ok THEN passHealthCheck(did(did(t, "dial"), "close"))
    ELSE IF d.Timeout
         THEN failHealthCheck(did(t, "dial"), 64, "timeout when making tcp connection")
         ELSE failHealthCheck(did(t, "dial"), 4, "failure to make TCP request")

\* portHealthCheck of the earlier main; ip.String() of a 4-byte form is dotted decimal.
portHealthCheck(t, p, svc) ==
    portExit(t, DialTimeout("tcp", convertIPv4(To4(p)) \o <<":">> \o t.port, 1, svc))

\* httpHealthCheck of the earlier main after client.Get returned; u is the parse
\* of the URL inside client.Get.
httpExit(t, u, resp) ==
    IF ~u.ok THEN failHealthCheck(t, 5, "failure to make HTTP request")
    ELSE IF resp.ok
         THEN IF resp.StatusCode = StatusOK
              THEN passHealthCheck(did(t, "GET"))
              ELSE failHealthCheck(did(t, "GET"), 6, "failure to get valid HTTP status code")
         ELSE IF resp.Timeout
              THEN failHealthCheck(did(t, "GET"), 65, "timeout when making HTTP request")
              ELSE failHealthCheck(did(t, "GET"), 5, "failure to make HTTP request")

httpGet(t, addr, svc) == httpExit(t, urlParse(addr), clientDo(addr, 1, svc))

httpHealthCheck(t, p, svc) ==
    httpGet(t, <<"h","t","t","p",":","/","/">> \o convertIPv4(To4(p)) \o <<":">> \o t.port \o t.uri, svc)

\* The trace of the earlier main when address k of interface position i is probed.
probing(t, i, k, p) ==
    [t EXCEPT !.inspected = Append(@, <<i, k>>),
              !.probed = Append(@, [at |-> <<i, k>>, ip |-> p])]

\* The earlier main's inner loop, at address k of interface position i; a
\* trace that has exited is the result.
RECURSIVE mainAddrs(_, _, _, _, _)
mainAddrs(svc, addrs, i, k, t) ==
    IF t.exited \/ k > Len(addrs) THEN t
    ELSE IF addrs[k].net /\ ~IsLoopback(addrs[k].ip)
         THEN IF To4(addrs[k].ip) # <<>>
              THEN IF Len(t.uri) > 0
                   THEN mainAddrs(svc, addrs, i, k + 1,
                                  httpHealthCheck(probing(t, i, k, addrs[k].ip), addrs[k].ip, svc))
                   ELSE mainAddrs(svc, addrs, i, k + 1,
                                  portHealthCheck(probing(t, i, k, addrs[k].ip), addrs[k].ip, svc))
              ELSE mainAddrs(svc, addrs, i, k + 1, examined(t, i, k))
         ELSE mainAddrs(svc, addrs, i, k + 1, examined(t, i, k))

\* The earlier main's outer loop, at position i of the interface list.
RECURSIVE mainInterfaces(_, _, _, _, _)
mainInterfaces(svc, host, intfs, i, t) ==
    IF t.exited THEN t
    ELSE IF i > Len(intfs) THEN failHealthCheck(t, 3, "failure to find suitable interface")
    ELSE IF ~Addrs(host, intfs[i]).ok THEN mainInterfaces(svc, host, intfs, i + 1, looked(t, i))
    ELSE mainInterfaces(svc, host, intfs, i + 1,
                        mainAddrs(svc, Addrs(host, intfs[i]).addrs, i, 1, looked(t, i)))

(***************************************************************************)
(* Sample values.                                                          *)
(***************************************************************************)
AddrLoopback4 == [net |-> TRUE, ip |-> <<127,0,0,1>>]
AddrLinkLocal6 == [net |-> TRUE, ip |-> <<254,128,0,0,0,0,0,0,0,0,0,0,0,0,0,1>>]
AddrV4 == [net |-> TRUE, ip |-> <<10,0,0,1>>]
AddrV4Mapped == [net |-> TRUE, ip |-> <<0,0,0,0,0,0,0,0,0,0,255,255,10,0,0,2>>]
AddrNotIPNet == [net |-> FALSE, ip |-> <<>>]

AddrSet == {AddrLoopback4, AddrLinkLocal6, AddrV4, AddrV4Mapped, AddrNotIPNet}

Up(addrs) == [present |-> TRUE, ok |-> TRUE, addrs |-> addrs]
LookupFails == [present |-> TRUE, ok |-> FALSE, addrs |-> <<>>]
Gone == [present |-> FALSE, ok |-> FALSE, addrs |-> <<>>]

\* The hosts the poll loop runs on, and between which the host may change.
RunHosts == { <<Up(<<AddrLoopback4>>), Up(<<AddrLinkLocal6, AddrV4>>)>>,
              <<Up(<<AddrLoopback4>>), LookupFails>>,
              <<Up(<<AddrLoopback4>>), Gone>>,
              <<Gone, Up(<<AddrV4Mapped>>)>>,
              <<Gone, Gone>> }

URIs == { <<>>, <<"/", "p">> }
Ports == { <<"8", "0", "8", "0">>, <<"x">>, <<>> }
CheckPorts == { <<"8", "0", "8", "0">>, <<"x">> }
ReadinessIntervals == {-1, 0, 2}
LivenessIntervals == {-1, 0, 3}

(***************************************************************************)
(* Idle values of the parts a specification does not exercise.             *)
(***************************************************************************)
DefaultFlags ==
    /\ network = "tcp" /\ uri = <<>> /\ port = <<"8", "0", "8", "0">> /\ timeout = 1
    /\ readinessInterval = -1 /\ livenessInterval = -1

IdleRun ==
    /\ interfaces = <<>> /\ h = NewHealthCheck("", <<>>, <<>>, 0) /\ err = Nil
    /\ enumCalls = 0 /\ enumerated = <<>> /\ outcomes = <<>> /\ slept = <<>>

IdleOut == stdout = <<>> /\ stderr = <<>> /\ exitCode = 0

IdleFmt == ip = <<>> /\ str = <<>> /\ formatted = FALSE

IdleOld == legacy = NoLegacy

(***************************************************************************)
(* cmd/healthcheck: realMain and main.                                     *)
(***************************************************************************)
Init ==
    /\ hostAddrs \in RunHosts
    /\ network = "tcp" /\ timeout = 1
    /\ uri \in URIs
    /\ port \in Ports
    /\ readinessInterval \in ReadinessIntervals
    /\ livenessInterval \in LivenessIntervals
    /\ pc = "start"
    /\ IdleRun /\ IdleOut /\ IdleFmt /\ IdleOld
    /\ lastCheck = NoTrace

\* Which of realMain's three branches runs after the enumeration.
branch ==
    IF readinessInterval > 0 THEN "readiness"
    ELSE IF livenessInterval > 0 THEN "liveness"
    ELSE "single"

\* realMain up to the mode branch: net.Interfaces() succeeds; newHealthCheck is
\* taken to build the value NewHealthCheck builds.
Enumerate ==
    /\ pc = "start"
    /\ interfaces' = Interfaces(hostAddrs)
    /\ enumerated' = Append(enumerated, Interfaces(hostAddrs))
    /\ enumCalls' = enumCalls + 1
    /\ h' = NewHealthCheck(network, uri, port, timeout)
    /\ pc' = branch
    /\ UNCHANGED <<hostVars, flagVars, err, outcomes, slept, lastCheck, outVars, fmtVars, oldVars>>

\* realMain: net.Interfaces() fails.
EnumerateFails ==
    /\ pc = "start"
    /\ enumCalls' = enumCalls + 1
    /\ err' = errorsNew("failure to get interfaces: " \o "route ip+net: netlinkrib: too many open files")
    /\ pc' = "returned"
    /\ UNCHANGED <<hostVars, flagVars, interfaces, h, enumerated, outcomes, slept, lastCheck,
                   outVars, fmtVars, oldVars>>

\* Mutant: the readiness loop returns the failure of a failed check.
ReadinessCheckReturnsFailure ==
    /\ pc = "readiness"
    /\ Len(outcomes) < MaxAttempts
    /\ \E svc \in Services :
         \E t \in {CheckInterfaces(h, interfaces, hostAddrs, svc)} :
            /\ lastCheck' = t
            /\ outcomes' = Append(outcomes, t.err = Nil)
            /\ err' = t.err /\ pc' = "returned"
    /\ UNCHANGED <<hostVars, flagVars, interfaces, h, enumCalls, enumerated, slept, outVars, fmtVars, oldVars>>

\* One iteration of the readiness loop, up to the return or the sleep.
ReadinessCheck ==
    /\ pc = "readiness"
    /\ Len(outcomes) < MaxAttempts
    /\ \E svc \in Services :
         \E t \in {CheckInterfaces(h, interfaces, hostAddrs, svc)} :
            /\ lastCheck' = t
            /\ outcomes' = Append(outcomes, t.err = Nil)
            /\ IF t.err = Nil
               THEN err' = Nil /\ pc' = "returned"
               ELSE err' = err /\ pc' = "readinessSleep"
    /\ UNCHANGED <<hostVars, flagVars, interfaces, h, enumCalls, enumerated, slept, outVars, fmtVars, oldVars>>

ReadinessSleep ==
    /\ pc = "readinessSleep"
    /\ slept' = Append(slept, readinessInterval)
    /\ pc' = "readiness"
    /\ UNCHANGED <<hostVars, flagVars, interfaces, h, err, enumCalls, enumerated, outcomes,
                   lastCheck, outVars, fmtVars, oldVars>>

\* Mutant: the liveness loop also returns after a successful check.
LivenessCheckReturnsSuccess ==
    /\ pc = "liveness"
    /\ Len(outcomes) < MaxAttempts
    /\ \E svc \in Services :
         \E t \in {CheckInterfaces(h, interfaces, hostAddrs, svc)} :
            /\ lastCheck' = t
            /\ outcomes' = Append(outcomes, t.err = Nil)
            /\ err' = t.err /\ pc' = "returned"
    /\ UNCHANGED <<hostVars, flagVars, interfaces, h, enumCalls, enumerated, slept, outVars, fmtVars, oldVars>>

\* Mutant: the liveness loop enumerates the interfaces anew for every check.
LivenessCheckReenumerates ==
    /\ pc = "liveness"
    /\ Len(outcomes) < MaxAttempts
    /\ interfaces' = Interfaces(hostAddrs)
    /\ enumCalls' = enumCalls + 1
    /\ \E svc \in Services :
         \E t \in {CheckInterfaces(h, interfaces', hostAddrs, svc)} :
            /\ lastCheck' = t
            /\ outcomes' = Append(outcomes, t.err = Nil)
            /\ IF t.err # Nil
               THEN err' = t.err /\ pc' = "returned"
               ELSE err' = err /\ pc' = "livenessSleep"
    /\ UNCHANGED <<hostVars, flagVars, h, enumerated, slept, outVars, fmtVars, oldVars>>

\* One iteration of the liveness loop, up to the return or the sleep.
LivenessCheck ==
    /\ pc = "liveness"
    /\ Len(outcomes) < MaxAttempts
    /\ \E svc \in Services :
         \E t \in {CheckInterfaces(h, interfaces, hostAddrs, svc)} :
            /\ lastCheck' = t
            /\ outcomes' = Append(outcomes, t.err = Nil)
            /\ IF t.err # Nil
               THEN err' = t.err /\ pc' = "returned"
               ELSE err' = err /\ pc' = "livenessSleep"
    /\ UNCHANGED <<hostVars, flagVars, interfaces, h, enumCalls, enumerated, slept, outVars, fmtVars, oldVars>>

LivenessSleep ==
    /\ pc = "livenessSleep"
    /\ slept' = Append(slept, livenessInterval)
    /\ pc' = "liveness"
    /\ UNCHANGED <<hostVars, flagVars, interfaces, h, err, enumCalls, enumerated, outcomes,
                   lastCheck, outVars, fmtVars, oldVars>>

\* Mutant: the single check's failure is dropped.
SingleCheckDropsFailure ==
    /\ pc = "single"
    /\ \E svc \in Services :
         \E t \in {CheckInterfaces(h, interfaces, hostAddrs, svc)} :
            /\ lastCheck' = t
            /\ outcomes' = Append(outcomes, t.err = Nil)
            /\ err' = Nil
    /\ pc' = "returned"
    /\ UNCHANGED <<hostVars, flagVars, interfaces, h, enumCalls, enumerated, slept, outVars, fmtVars, oldVars>>

\* realMain's last line: the single check.
SingleCheck ==
    /\ pc = "single"
    /\ \E svc \in Services :
         \E t \in {CheckInterfaces(h, interfaces, hostAddrs, svc)} :
            /\ lastCheck' = t
            /\ outcomes' = Append(outcomes, t.err = Nil)
            /\ err' = t.err
    /\ pc' = "returned"
    /\ UNCHANGED <<hostVars, flagVars, interfaces, h, enumCalls, enumerated, slept, outVars, fmtVars, oldVars>>

\* Mutant: every failure exits with code 1.
MainExitCodeOne ==
    /\ pc = "returned"
    /\ IF err # Nil
       THEN IF err.kind = "HealthCheckError"
            THEN /\ stdout' = Append(stdout, "healthcheck failed: " \o err.Message)
                 /\ exitCode' = 1
            ELSE /\ stdout' = Append(stdout, "healthcheck failed(unknown error)" \o err.Message)
                 /\ exitCode' = 127
       ELSE /\ stdout' = Append(stdout, "healthcheck passed")
            /\ exitCode' = 0
    /\ stderr' = stderr
    /\ pc' = "exited"
    /\ UNCHANGED <<hostVars, flagVars, interfaces, h, err, enumCalls, enumerated, outcomes,
                   slept, lastCheck, fmtVars, oldVars>>

\* main, after realMain returned: the message and the exit code.
MainExit ==
    /\ pc = "returned"
    /\ IF err # Nil
       THEN IF err.kind = "HealthCheckError"
            THEN /\ stdout' = Append(stdout, "healthcheck failed: " \o err.Message)
                 /\ exitCode' = err.Code
            ELSE /\ stdout' = Append(stdout, "healthcheck failed(unknown error)" \o err.Message)
                 /\ exitCode' = 127
       ELSE /\ stdout' = Append(stdout, "healthcheck passed")
            /\ exitCode' = 0
    /\ stderr' = stderr
    /\ pc' = "exited"
    /\ UNCHANGED <<hostVars, flagVars, interfaces, h, err, enumCalls, enumerated, outcomes,
                   slept, lastCheck, fmtVars, oldVars>>

\* The environment: the host's interfaces and addresses change while the process runs.
HostChange ==
    /\ pc \notin {"returned", "exited"}
    /\ hostAddrs' \in RunHosts \ {hostAddrs}
    /\ UNCHANGED <<flagVars, runVars, lastCheck, outVars, fmtVars, oldVars>>

Next ==
    \/ Enumerate
    \/ EnumerateFails
    \/ ReadinessCheck
    \/ ReadinessSleep
    \/ LivenessCheck
    \/ LivenessSleep
    \/ SingleCheck
    \/ MainExit
    \/ HostChange

Spec == Init /\ [][Next]_vars

(***************************************************************************)
(* CheckInterfaces as a library call: the host is built up one interface   *)
(* and one address at a time, then checked once.                           *)
(***************************************************************************)
RECURSIVE TotalAddrs(_)
TotalAddrs(host) ==
    IF host = <<>> THEN 0 ELSE Len(Head(host).addrs) + TotalAddrs(Tail(host))

InitCheck ==
    /\ hostAddrs = <<>>
    /\ DefaultFlags
    /\ pc = "library"
    /\ IdleRun /\ IdleOut /\ IdleFmt /\ IdleOld
    /\ lastCheck = NoTrace

AddInterface ==
    /\ ~lastCheck.called /\ ~legacy.called
    /\ Len(hostAddrs) < MaxIfs
    /\ hostAddrs' = Append(hostAddrs, Up(<<>>))
    /\ UNCHANGED <<flagVars, runVars, lastCheck, outVars, fmtVars, oldVars>>

AddAddress ==
    /\ ~lastCheck.called /\ ~legacy.called
    /\ TotalAddrs(hostAddrs) < MaxAddrs
    /\ \E i \in DOMAIN hostAddrs, a \in AddrSet :
         /\ hostAddrs[i].ok
         /\ hostAddrs' = [hostAddrs EXCEPT ![i].addrs = Append(@, a)]
    /\ UNCHANGED <<flagVars, runVars, lastCheck, outVars, fmtVars, oldVars>>

FailLookup ==
    /\ ~lastCheck.called /\ ~legacy.called
    /\ \E i \in DOMAIN hostAddrs :
         /\ hostAddrs[i].ok /\ hostAddrs[i].addrs = <<>>
         /\ hostAddrs' = [hostAddrs EXCEPT ![i] = LookupFails]
    /\ UNCHANGED <<flagVars, runVars, lastCheck, outVars, fmtVars, oldVars>>

CheckOnce ==
    /\ ~lastCheck.called /\ ~legacy.called
    /\ \E u \in URIs, p \in CheckPorts, svc \in Services :
         /\ h' = NewHealthCheck("tcp", u, p, 1)
         /\ interfaces' = Interfaces(hostAddrs)
         /\ lastCheck' = CheckInterfaces(h', interfaces', hostAddrs, svc)
    /\ UNCHANGED <<hostVars, flagVars, pc, err, enumCalls, enumerated, outcomes, slept,
                   outVars, fmtVars, oldVars>>

\* The earlier main, from the enumeration to the exit.
LegacyMain ==
    /\ ~lastCheck.called /\ ~legacy.called
    /\ \E u \in URIs, p \in CheckPorts, svc \in Services :
         legacy' = mainInterfaces(svc, hostAddrs, Interfaces(hostAddrs), 1,
                                  [NoLegacy EXCEPT !.called = TRUE, !.uri = u, !.port = p, !.svc = svc,
                                                   !.interfaces = Interfaces(hostAddrs)])
    /\ UNCHANGED <<hostVars, flagVars, runVars, lastCheck, outVars, fmtVars>>

\* The earlier main when net.Interfaces() fails.
LegacyMainNoInterfaces ==
    /\ ~lastCheck.called /\ ~legacy.called
    /\ legacy' = failHealthCheck([NoLegacy EXCEPT !.called = TRUE], 1, "failure to get interfaces")
    /\ UNCHANGED <<hostVars, flagVars, runVars, lastCheck, outVars, fmtVars>>

NextCheck ==
    \/ AddInterface
    \/ AddAddress
    \/ FailLookup
    \/ CheckOnce
    \/ LegacyMain
    \/ LegacyMainNoInterfaces

SpecCheck == InitCheck /\ [][NextCheck]_vars

(***************************************************************************)
(* IPString as a pure function: one input, formatted once.                 *)
(***************************************************************************)
GroupBytes == { <<0, 0>>, <<10, 1>>, <<255, 255>> }

V6Inputs ==
    { a \o b \o c \o d \o e \o f \o g \o hh :
        a \in GroupBytes, b \in GroupBytes, c \in GroupBytes, d \in GroupBytes,
        e \in GroupBytes, f \in GroupBytes, g \in GroupBytes, hh \in GroupBytes }

OtherInputs == { <<>>, <<10,0,0,1>>, <<127,0,0,1>>, <<0,0,0,0>>, <<255,255,255,255>>,
                 <<192,168,100,9>>, <<1,2,3>>, <<10,171,0,5,255>> }

InitFmt ==
    /\ ip \in V6Inputs \cup OtherInputs
    /\ str = <<>> /\ formatted = FALSE
    /\ hostAddrs = <<>>
    /\ DefaultFlags
    /\ pc = "library"
    /\ IdleRun /\ IdleOut /\ IdleOld
    /\ lastCheck = NoTrace

Format ==
    /\ ~formatted
    /\ str' = IPString(ip)
    /\ formatted' = TRUE
    /\ UNCHANGED <<hostVars, flagVars, runVars, lastCheck, outVars, oldVars, ip>>

NextFmt == Format

SpecFmt == InitFmt /\ [][NextFmt]_vars

(***************************************************************************)
(* Reference rendering of a 16-byte address, stated on its eight groups.   *)
(***************************************************************************)
Groups(p) == [k \in 1..8 |-> p[2 * k - 1] * 256 + p[2 * k]]

\* The maximal runs of zero groups, as <<first group, length>>.
ZeroRuns(g) ==
    { r \in (1..8) \X (1..8) :
        /\ r[1] + r[2] - 1 <= 8
        /\ \A k \in r[1]..(r[1] + r[2] - 1) : g[k] = 0
        /\ (r[1] = 1 \/ g[r[1] - 1] # 0)
        /\ (r[1] + r[2] = 9 \/ g[r[1] + r[2]] # 0) }

LongestLen(g) ==
    IF ZeroRuns(g) = {} THEN 0
    ELSE LET r == CHOOSE x \in ZeroRuns(g) : \A y \in ZeroRuns(g) : y[2] <= x[2] IN r[2]

\* The earliest among the longest runs.
EarliestLongest(g) ==
    CHOOSE x \in ZeroRuns(g) :
        /\ x[2] = LongestLen(g)
        /\ \A y \in ZeroRuns(g) : y[2] = LongestLen(g) => x[1] <= y[1]

\* Lowercase hex without leading zeros.
RECURSIVE RefHex(_)
RefHex(n) ==
    IF n < 16 THEN <<hexDigit[n + 1]>> ELSE Append(RefHex(n \div 16), hexDigit[(n % 16) + 1])

\* Groups from..to in hex, separated by ':'.
RECURSIVE JoinGroups(_, _, _)
JoinGroups(g, from, to) ==
    IF from > to THEN <<>>
    ELSE IF from = to THEN RefHex(g[from])
    ELSE RefHex(g[from]) \o <<":">> \o JoinGroups(g, from + 1, to)

\* The text with the run r, and only it, replaced by "::".
Compressed(g, r) ==
    JoinGroups(g, 1, r[1] - 1) \o <<":", ":">> \o JoinGroups(g, r[1] + r[2], 8)

\* ::ffff:a.b.c.d, the 16-byte form of an IPv4 address.
IsV4Mapped(g) == (\A k \in 1..5 : g[k] = 0) /\ g[6] = 65535

\* C8 as stated: for every 16-byte address whose longest run of zero groups
\* has length >= 2, IPString renders the earliest longest run, and only it,
\* as "::" and every other group in lowercase hex without leading zeros.
C8_AsStated ==
    (formatted /\ Len(ip) = IPv6len /\ LongestLen(Groups(ip)) >= 2)
        => str = Compressed(Groups(ip), EarliestLongest(Groups(ip)))

\* C8 amended: the same, for every 16-byte address that is not the 16-byte
\* form of an IPv4 address (those are rendered dotted-decimal).
C8_Compression ==
    (formatted /\ Len(ip) = IPv6len /\ ~IsV4Mapped(Groups(ip)) /\ LongestLen(Groups(ip)) >= 2)
        => str = Compressed(Groups(ip), EarliestLongest(Groups(ip)))

\* A formatted address with two longest runs of equal length >= 2, the
\* second one not compressed.
C8_Witness ==
    /\ formatted /\ Len(ip) = IPv6len /\ ~IsV4Mapped(Groups(ip))
    /\ LongestLen(Groups(ip)) >= 2
    /\ Cardinality({r \in ZeroRuns(Groups(ip)) : r[2] = LongestLen(Groups(ip))}) = 2
    /\ str = Compressed(Groups(ip), EarliestLongest(Groups(ip)))

(***************************************************************************)
(* Claims about one CheckInterfaces call (SpecCheck).                      *)
(***************************************************************************)
\* An address with an IP that is not loopback and has a 4-byte form.
NonLoopbackIPv4(a) == a.net /\ ~IsLoopback(a.ip) /\ To4(a.ip) # <<>>

\* Positions <<interface, address>> of the candidates in an interface list:
\* the non-loopback IPv4 addresses of the interfaces whose lookup succeeds.
CandidatesOf(intfs) ==
    { q \in (1..Len(intfs)) \X (1..MaxAddrs + 1) :
        LET e == hostAddrs[intfs[q[1]]]
        IN e.present /\ e.ok /\ q[2] <= Len(e.addrs) /\ NonLoopbackIPv4(e.addrs[q[2]]) }

Before(q, r) == q[1] < r[1] \/ (q[1] = r[1] /\ q[2] < r[2])

FirstOf(Q) == CHOOSE q \in Q : \A r \in Q : r = q \/ Before(q, r)

IPAt(intfs, q) == hostAddrs[intfs[q[1]]].addrs[q[2]].ip

\* The candidates of the last CheckInterfaces call.
Candidates == CandidatesOf(lastCheck.interfaces)

FirstCandidate == FirstOf(Candidates)

CandidateIP(q) == IPAt(lastCheck.interfaces, q)

Range(s) == {s[i] : i \in DOMAIN s}

Count(s, x) == Cardinality({i \in DOMAIN s : s[i] = x})

\* What C4 says of a scan's trace t over the interface list intfs.
OneProbe(t, intfs) ==
    /\ Len(t.probed) <= 1
    /\ CandidatesOf(intfs) = {} => t.probed = <<>>
    /\ CandidatesOf(intfs) # {} =>
         LET first == FirstOf(CandidatesOf(intfs))
         IN /\ t.probed = <<[at |-> first, ip |-> IPAt(intfs, first)]>>
            /\ \A q \in Range(t.inspected) : q = first \/ Before(q, first)
            /\ \A i \in Range(t.looked) : i <= first[1]

\* C4: a check probes at most one address, the first candidate in interface
\* order and then address order; it returns that probe's result, whatever
\* it is, and calls Addrs() on no later interface and examines no later
\* address.  The earlier main does the same and exits with the probe's code.
C4_OneProbe ==
    /\ lastCheck.called =>
        /\ OneProbe(lastCheck, lastCheck.interfaces)
        /\ Candidates # {} =>
             /\ lastCheck.err = healthcheck(lastCheck.h, CandidateIP(FirstCandidate), lastCheck.svc).err
             /\ lastCheck.ops = healthcheck(lastCheck.h, CandidateIP(FirstCandidate), lastCheck.svc).ops
    /\ legacy.called =>
        /\ OneProbe(legacy, legacy.interfaces)
        /\ legacy.exited
        /\ Count(legacy.ops, "dial") + Count(legacy.ops, "GET") <= 1
        /\ legacy.probed # <<>> => legacy.exit \in {0, 4, 5, 6, 64, 65}

\* A check whose probe of the first candidate failed although a later
\* candidate exists, on the same interface or a later one.
C4_Witness ==
    /\ lastCheck.called
    /\ Cardinality(Candidates) >= 2
    /\ Len(lastCheck.probed) = 1
    /\ lastCheck.err # Nil
    /\ \E q \in Candidates : q[1] > FirstCandidate[1]

\* C5: a check returns Failure 3 "failure to find suitable interface", with
\* no probe, exactly when there is no candidate; a failed address lookup
\* only skips its interface: every interface up to the first candidate's
\* (all of them when there is none) has its Addrs() called.
C5_NoInterface ==
    lastCheck.called =>
        /\ (lastCheck.err = HealthCheckError(3, "failure to find suitable interface"))
              <=> (Candidates = {})
        /\ lastCheck.err.Code = 3 <=> Candidates = {}
        /\ Candidates = {} =>
             /\ lastCheck.probed = <<>> /\ lastCheck.ops = <<>>
             /\ lastCheck.looked = [i \in 1..Len(lastCheck.interfaces) |-> i]
        /\ Candidates # {} =>
             lastCheck.looked = [i \in 1..FirstCandidate[1] |-> i]

\* A check on two interfaces, the first with a failing lookup and the
\* second with addresses none of which is a candidate: Failure 3, no probe.
C5_Witness ==
    /\ lastCheck.called
    /\ Len(lastCheck.interfaces) = 2
    /\ ~hostAddrs[lastCheck.interfaces[1]].ok
    /\ Len(hostAddrs[lastCheck.interfaces[2]].addrs) >= 1
    /\ Candidates = {}
    /\ lastCheck.err.Code = 3
    /\ lastCheck.ops = <<>>
    /\ lastCheck.looked = <<1, 2>>

HTTPOutcome ==
    /\ lastCheck.svc \in {"ok200", "ok204", "ok500"} =>
         lastCheck.ops = <<"parse", "GET", "drain", "closeBody", "status">>
    /\ lastCheck.svc = "ok200" => lastCheck.err = Nil
    /\ lastCheck.svc = "ok204" =>
         lastCheck.err = HealthCheckError(6, "failure to get valid HTTP status code: 204")
    /\ lastCheck.svc = "ok500" =>
         lastCheck.err = HealthCheckError(6, "failure to get valid HTTP status code: 500")
    /\ lastCheck.svc = "slow" =>
         lastCheck.err = HealthCheckError(65, "timeout when making HTTP request: Client.Timeout exceeded")
    /\ lastCheck.svc = "refused" =>
         lastCheck.err = HealthCheckError(5, "failure to make HTTP request: connection refused")

\* C7 as stated: every HTTP probe (URI non-empty) issues exactly one GET;
\* a response is drained and closed before its status is evaluated, 200
\* gives Success, any other status Failure 6 with the status in the
\* message; a timeout gives Failure 65, any other error Failure 5.
C7_AsStated ==
    (lastCheck.called /\ Len(lastCheck.h.uri) > 0 /\ lastCheck.probed # <<>>) =>
        /\ Count(lastCheck.ops, "GET") = 1
        /\ HTTPOutcome

\* C7 amended: the same for every HTTP probe whose URL parses; one whose
\* URL does not parse issues no GET and gives Failure -1.
C7_HTTPProbe ==
    (lastCheck.called /\ Len(lastCheck.h.uri) > 0 /\ lastCheck.probed # <<>>) =>
        /\ Count(lastCheck.ops, "dial") = 0
        /\ \/ /\ Count(lastCheck.ops, "GET") = 1
              /\ HTTPOutcome
           \/ /\ Count(lastCheck.ops, "GET") = 0
              /\ lastCheck.ops = <<"parse">>
              /\ lastCheck.err = HealthCheckError(-1, "failed to parse URL: invalid port")
              /\ \E c \in Range(lastCheck.h.port) : c \notin Digits

\* An HTTP probe answered with status 500.
C7_Witness ==
    /\ lastCheck.called /\ Len(lastCheck.h.uri) > 0 /\ lastCheck.probed # <<>>
    /\ lastCheck.svc = "ok500"
    /\ lastCheck.err.Code = 6
    /\ Count(lastCheck.ops, "GET") = 1

(***************************************************************************)
(* Claims about the poll loop and the CLI adapter (Spec).                  *)
(***************************************************************************)
Returned == pc \in {"returned", "exited"}

AllBut(last, n) == [i \in 1..n |-> IF i = n THEN last ELSE ~last]

\* C1: with readinessInterval > 0 the run returns only nil, and only right
\* after the first successful check: every earlier check failed and was
\* followed by one sleep of readinessInterval; while every check so far
\* has failed the run has not returned.  So checks failing twice and
\* then succeeding give nil after 3 checks and 2 sleeps.
C1_Readiness ==
    readinessInterval > 0 =>
        /\ Returned => err.kind # "HealthCheckError"
        /\ (Returned /\ outcomes # <<>>) =>
             /\ err = Nil
             /\ outcomes = AllBut(TRUE, Len(outcomes))
             /\ slept = [i \in 1..(Len(outcomes) - 1) |-> readinessInterval]
        /\ (outcomes # <<>> /\ \A i \in DOMAIN outcomes : ~outcomes[i]) =>
             /\ pc \in {"readiness", "readinessSleep"}
             /\ Len(slept) = IF pc = "readiness" THEN Len(outcomes) ELSE Len(outcomes) - 1
        /\ outcomes = <<FALSE, FALSE, TRUE>> =>
             Returned /\ err = Nil /\ slept = <<readinessInterval, readinessInterval>>

\* A readiness run that returned after two failed checks and a successful one.
C1_Witness ==
    /\ readinessInterval > 0
    /\ pc = "returned"
    /\ outcomes = <<FALSE, FALSE, TRUE>>
    /\ Len(slept) = 2
    /\ err = Nil

\* C2: with livenessInterval > 0 and readinessInterval not positive the run
\* never returns nil; it returns the Failure of the first failing check,
\* code and message unchanged, with no sleep after it; every earlier check
\* succeeded and was followed by one sleep of livenessInterval.  So checks
\* succeeding twice and then failing give that Failure after 3 checks.
C2_Liveness ==
    (readinessInterval <= 0 /\ livenessInterval > 0) =>
        /\ Returned => err # Nil
        /\ (Returned /\ outcomes # <<>>) =>
             /\ err = lastCheck.err
             /\ err.kind = "HealthCheckError"
             /\ outcomes = AllBut(FALSE, Len(outcomes))
             /\ slept = [i \in 1..(Len(outcomes) - 1) |-> livenessInterval]
        /\ (outcomes # <<>> /\ \A i \in DOMAIN outcomes : outcomes[i]) =>
             /\ pc \in {"liveness", "livenessSleep"}
             /\ Len(slept) = IF pc = "liveness" THEN Len(outcomes) ELSE Len(outcomes) - 1
        /\ outcomes = <<TRUE, TRUE, FALSE>> =>
             Returned /\ err = lastCheck.err /\ slept = <<livenessInterval, livenessInterval>>

\* A liveness run that returned the failure of its third check.
C2_Witness ==
    /\ readinessInterval <= 0 /\ livenessInterval > 0
    /\ pc = "returned"
    /\ outcomes = <<TRUE, TRUE, FALSE>>
    /\ Len(slept) = 2
    /\ err = lastCheck.err /\ err.Code = 64

\* C3 as stated: with neither interval positive, a run that has returned
\* made exactly one check, never slept, and returned that check's result.
C3_AsStated ==
    (readinessInterval <= 0 /\ livenessInterval <= 0 /\ Returned) =>
        /\ Len(outcomes) = 1
        /\ slept = <<>>
        /\ err = lastCheck.err

\* C3 amended: with neither interval positive, a run never sleeps; one whose
\* interface enumeration succeeded makes exactly one check and returns its
\* result unchanged; one whose enumeration failed makes no check and
\* returns the plain error "failure to get interfaces: ...".
C3_SingleShot ==
    (readinessInterval <= 0 /\ livenessInterval <= 0) =>
        /\ slept = <<>>
        /\ Len(outcomes) <= 1
        /\ (Returned /\ Len(enumerated) = 1) =>
             /\ Len(outcomes) = 1
             /\ lastCheck.called
             /\ err = lastCheck.err
        /\ (Returned /\ Len(enumerated) = 0) =>
             /\ outcomes = <<>>
             /\ err.kind = "error"

\* A single-shot run that returned the Failure 4 of its one check.
C3_Witness ==
    /\ readinessInterval <= 0 /\ livenessInterval <= 0
    /\ pc = "returned"
    /\ Len(outcomes) = 1
    /\ err = lastCheck.err
    /\ err.Code = 4

\* C9 as stated: after main has ended, a Failure is reported on stderr,
\* nothing on stdout, with the Failure's code as exit code; Success is
\* reported on stdout with exit code 0.
C9_AsStated ==
    pc = "exited" =>
        /\ err.kind = "HealthCheckError" =>
             stderr # <<>> /\ stdout = <<>> /\ exitCode = err.Code
        /\ err = Nil =>
             stdout = <<"healthcheck passed">> /\ exitCode = 0

\* C9 amended: after main has ended, a Failure is reported on stdout
\* ("healthcheck failed: " and its message), nothing on stderr, and
\* os.Exit is called with the Failure's code; Success is reported on stdout
\* with exit code 0.  Nothing is written before.
C9_Adapter ==
    /\ pc # "exited" => stdout = <<>> /\ stderr = <<>>
    /\ pc = "exited" =>
        /\ stderr = <<>>
        /\ err.kind = "HealthCheckError" =>
             /\ stdout = <<"healthcheck failed: " \o err.Message>>
             /\ exitCode = err.Code
        /\ err = Nil =>
             stdout = <<"healthcheck passed">> /\ exitCode = 0

\* main ended after an HTTP probe timed out.
C9_Witness ==
    /\ pc = "exited"
    /\ err.kind = "HealthCheckError"
    /\ exitCode = 65
    /\ stdout = <<"healthcheck failed: timeout when making HTTP request: Client.Timeout exceeded">>

\* C10: net.Interfaces() is called once, before any check; every check of
\* the run is passed the list that call returned and the HealthCheck built
\* from the flags, whatever the host's interfaces have become since.
C10_EnumeratedOnce ==
    /\ enumCalls <= 1
    /\ pc # "start" => enumCalls = 1
    /\ outcomes # <<>> =>
         /\ Len(enumerated) = 1
         /\ interfaces = enumerated[1]
         /\ lastCheck.interfaces = enumerated[1]
         /\ h = NewHealthCheck(network, uri, port, timeout)
         /\ lastCheck.h = h

\* A second or later check made after the host's interface list changed.
C10_Witness ==
    /\ Len(outcomes) >= 2
    /\ Len(enumerated) = 1
    /\ Interfaces(hostAddrs) # enumerated[1]
    /\ lastCheck.interfaces = enumerated[1]
    /\ pc \in {"readinessSleep", "livenessSleep", "returned"}

====
